---- MODULE Spec2Model ----
(***************************************************************************)
(* A model of synonyms.py: semantic descriptors built from sentence        *)
(* co-occurrence, cosine similarity over sparse vectors, the synonym       *)
(* selector and the evaluation loop.                                       *)
(*                                                                         *)
(* Python dicts are functions with a finite DOMAIN (the keys).  Python     *)
(* ints are exact; Python floats are IEEE-754 binary64 values, modelled    *)
(* exactly (53-bit significand, round to nearest, ties to even) on         *)
(* multi-limb naturals, because TLC's integers are 32 bits wide.           *)
(***************************************************************************)
EXTENDS Integers, Sequences, FiniteSets, TLC

\* ------------------------------------------------------------------------
\* Multi-limb naturals: little-endian sequences of limbs in base 2^15.
\* ------------------------------------------------------------------------
LimbBits == 15
Base == 2^LimbBits

Limb(a, i) == IF i <= Len(a) THEN a[i] ELSE 0

RECURSIVE BTrim(_)
BTrim(a) ==
    IF Len(a) = 0 THEN a
    ELSE IF a[Len(a)] = 0 THEN BTrim(SubSeq(a, 1, Len(a) - 1))
    ELSE a

RECURSIVE BFromNat(_)
BFromNat(n) == IF n = 0 THEN <<>> ELSE <<n % Base>> \o BFromNat(n \div Base)

\* a * d + c for a limb d and a carry c
RECURSIVE BMulLimbFrom(_, _, _, _)
BMulLimbFrom(a, d, c, i) ==
    IF i > Len(a) THEN (IF c = 0 THEN <<>> ELSE <<c>>)
    ELSE LET s == a[i] * d + c
         IN  <<s % Base>> \o BMulLimbFrom(a, d, s \div Base, i + 1)

BMulLimb(a, d, c) == BMulLimbFrom(a, d, c, 1)

RECURSIVE BAddFrom(_, _, _, _)
BAddFrom(a, b, c, i) ==
    IF i > Len(a) /\ i > Len(b) THEN (IF c = 0 THEN <<>> ELSE <<c>>)
    ELSE LET s == Limb(a, i) + Limb(b, i) + c
         IN  <<s % Base>> \o BAddFrom(a, b, s \div Base, i + 1)

BAdd(a, b) == BAddFrom(a, b, 0, 1)

\* a - b for a >= b
RECURSIVE BSubFrom(_, _, _, _)
BSubFrom(a, b, br, i) ==
    IF i > Len(a) THEN <<>>
    ELSE LET s == a[i] - Limb(b, i) - br
         IN  IF s < 0 THEN <<s + Base>> \o BSubFrom(a, b, 1, i + 1)
             ELSE <<s>> \o BSubFrom(a, b, 0, i + 1)

BSub(a, b) == BTrim(BSubFrom(a, b, 0, 1))

\* -1, 0, 1 as a < b, a = b, a > b (both trimmed)
RECURSIVE BCmpFrom(_, _, _)
BCmpFrom(a, b, i) ==
    IF i = 0 THEN 0
    ELSE IF a[i] < b[i] THEN -1
    ELSE IF a[i] > b[i] THEN 1
    ELSE BCmpFrom(a, b, i - 1)

BCmp(a, b) ==
    IF Len(a) < Len(b) THEN -1
    ELSE IF Len(a) > Len(b) THEN 1
    ELSE BCmpFrom(a, b, Len(a))

Zeros(n) == [i \in 1..n |-> 0]

RECURSIVE BMulFrom(_, _, _)
BMulFrom(a, b, j) ==
    IF j > Len(b) THEN <<>>
    ELSE BAdd(Zeros(j - 1) \o BMulLimb(a, b[j], 0), BMulFrom(a, b, j + 1))

BMul(a, b) == BTrim(BMulFrom(a, b, 1))

BShl(a, s) ==
    IF Len(a) = 0 THEN a
    ELSE Zeros(s \div LimbBits) \o BMulLimb(a, 2^(s % LimbBits), 0)

BShr(a, s) ==
    LET q == s \div LimbBits
        r == s % LimbBits
        n == Len(a) - q
    IN  IF n <= 0 THEN <<>>
        ELSE BTrim([i \in 1..n |->
                 (a[i + q] \div 2^r) + (Limb(a, i + q + 1) % 2^r) * 2^(LimbBits - r)])

BBit(a, k) == (Limb(a, k \div LimbBits + 1) \div 2^(k % LimbBits)) % 2

\* whether a mod 2^s = 0
BLowZero(a, s) ==
    /\ \A i \in 1..(s \div LimbBits) : Limb(a, i) = 0
    /\ Limb(a, s \div LimbBits + 1) % 2^(s % LimbBits) = 0

RECURSIVE NatBits(_)
NatBits(n) == IF n = 0 THEN 0 ELSE 1 + NatBits(n \div 2)

\* number of significant bits of a trimmed a
BBits(a) == IF Len(a) = 0 THEN 0 ELSE LimbBits * (Len(a) - 1) + NatBits(a[Len(a)])

\* ------------------------------------------------------------------------
\* binary64 values: [sgn, man, exp] stands for sgn * man * 2^exp with man a
\* multi-limb natural of exactly 53 bits, or <<>> for zero.  The exponent range
\* and subnormals are left out: every value the program computes here is far
\* from both ends of the range.
\* ------------------------------------------------------------------------
Precision == 53

FZero == [sgn |-> 1, man |-> <<>>, exp |-> 0]

\* sgn * p * 2^e for an exact natural p, rounded to nearest, ties to even
FRound(sgn, p0, e) ==
    LET p == BTrim(p0)
        n == BBits(p)
    IN  IF n = 0 THEN FZero
        ELSE IF n <= Precision
        THEN [sgn |-> sgn, man |-> BShl(p, Precision - n), exp |-> e - (Precision - n)]
        ELSE LET s     == n - Precision
                 q     == BShr(p, s)
                 guard == BBit(p, s - 1) = 1
                 rest  == ~BLowZero(p, s - 1)
                 up    == guard /\ (rest \/ BBit(q, 0) = 1)
                 q1    == IF up THEN BTrim(BAdd(q, <<1>>)) ELSE q
             IN  IF BBits(q1) > Precision
                 THEN [sgn |-> sgn, man |-> BShr(q1, 1), exp |-> e + s + 1]
                 ELSE [sgn |-> sgn, man |-> q1, exp |-> e + s]

Abs(n) == IF n < 0 THEN -n ELSE n

\* float(n) for a Python int n
FromInt(n) == FRound(IF n < 0 THEN -1 ELSE 1, BFromNat(Abs(n)), 0)

FMul(x, y) ==
    IF Len(x.man) = 0 \/ Len(y.man) = 0 THEN FZero
    ELSE FRound(x.sgn * y.sgn, BMul(x.man, y.man), x.exp + y.exp)

\* the largest digit q <= qh with q * d <= r
RECURSIVE QFix(_, _, _)
QFix(r, d, qh) ==
    IF BCmp(BTrim(BMulLimb(d, qh, 0)), r) > 0 THEN QFix(r, d, qh - 1) ELSE qh

\* Long division in base 2^15 (Knuth's algorithm D with a one-limb estimate) of
\* r * Base^k by d, for r < d and d of four limbs with its top limb >= Base / 2:
\* the quotient doubled, plus 1 when the division is inexact.
RECURSIVE DivDigits(_, _, _, _)
DivDigits(r, d, q, k) ==
    LET r1    == IF Len(r) = 0 THEN r ELSE <<0>> \o r
        est   == (Limb(r1, 5) * Base + Limb(r1, 4)) \div d[4]
        digit == QFix(r1, d, IF est >= Base THEN Base - 1 ELSE est)
        r2    == BSub(r1, BTrim(BMulLimb(d, digit, 0)))
    IN  IF k > 0 /\ Len(r2) >= 0
        THEN DivDigits(r2, d, <<digit>> \o q, k - 1)
        ELSE BMulLimb(BTrim(q), 2, IF Len(r) = 0 THEN 0 ELSE 1)

QuotientLimbs == 4

\* x / y for y # 0
FDiv(x, y) ==
    IF Len(x.man) = 0 THEN FZero
    ELSE LET r  == BShl(x.man, 4 * LimbBits - Precision)
             d  == BShl(y.man, 4 * LimbBits - Precision)
             ge == BCmp(r, d) >= 0
         IN  FRound(x.sgn * y.sgn,
                    DivDigits(IF ge THEN BSub(r, d) ELSE r, d,
                              IF ge THEN <<1>> ELSE <<>>, QuotientLimbs),
                    x.exp - y.exp - QuotientLimbs * LimbBits - 1)

\* the integer square root of n, found bit by bit from bit k down
RECURSIVE ISqrt(_, _, _)
ISqrt(n, s, k) ==
    LET t  == BAdd(s, BShl(<<1>>, k))
        s1 == IF BCmp(BMul(t, t), n) <= 0 THEN t ELSE s
    IN  IF k > 0 /\ Len(s1) >= 0 THEN ISqrt(n, s1, k - 1) ELSE s1

\* sqrt(x) for x >= 0, correctly rounded
FSqrt(x) ==
    IF Len(x.man) = 0 THEN FZero
    ELSE LET k  == Precision + 5 + (x.exp % 2)
             n  == BShl(x.man, k)
             s  == ISqrt(n, <<>>, Precision + 6)
             st == IF BCmp(BMul(s, s), n) = 0 THEN 0 ELSE 1
         IN  FRound(1, BMulLimb(s, 2, st), (x.exp - k) \div 2 - 1)

\* x < y
FLess(x, y) ==
    LET xz == Len(x.man) = 0
        yz == Len(y.man) = 0
        \* |x| < |y| for nonzero x, y
        magLess == \/ x.exp < y.exp
                   \/ x.exp = y.exp /\ BCmp(x.man, y.man) < 0
    IN  IF xz THEN ~yz /\ y.sgn = 1
        ELSE IF yz THEN x.sgn = -1
        ELSE IF x.sgn # y.sgn THEN x.sgn = -1
        ELSE IF x.sgn = 1 THEN magLess
        ELSE \/ y.exp < x.exp
             \/ x.exp = y.exp /\ BCmp(y.man, x.man) < 0

FLeq(x, y) == ~FLess(y, x)

\* ------------------------------------------------------------------------
\* Bounds of the model
\* ------------------------------------------------------------------------
Words == {"a", "b", "c"}

\* sentences handed to build_semantic_descriptors
MaxSentences == 2
\* largest magnitude of a sparse vector handed to cosine_similarity directly
MaxCount == 2
\* choices of one question handed to most_similar_word
MaxChoices == 2
\* lines of a test file, and whitespace-separated fields of one line
MaxLines == 3
MaxFields == 4

\* a sentence is a list of words: every list of at most as many tokens as
\* there are words, so that it may repeat a word beside another one
SentencePool == UNION {[1..n -> Words] : n \in 0..Cardinality(Words)}

\* ------------------------------------------------------------------------
\* dicts
\* ------------------------------------------------------------------------
EmptyDict == [k \in {} |-> 0]

Get(d, k, default) == IF k \in DOMAIN d THEN d[k] ELSE default

Put(d, k, v) == [x \in DOMAIN d \cup {k} |-> IF x = k THEN v ELSE d[x]]

\* ------------------------------------------------------------------------
\* cosine_similarity
\* ------------------------------------------------------------------------
RECURSIVE SumOver(_, _, _)
SumOver(keys, vec, other) ==
    IF keys = {} THEN 0
    ELSE LET k == CHOOSE x \in keys : TRUE
         IN  vec[k] * other[k] + SumOver(keys \ {k}, vec, other)

\* base1, base2: the sum of value ** 2 over the items of a vector
SumOfSquares(vec) == SumOver(DOMAIN vec, vec, vec)

\* top: the sum of value1 * vec2[key1] over the keys of vec1 that vec2 has
DotProduct(vec1, vec2) == SumOver(DOMAIN vec1 \cap DOMAIN vec2, vec1, vec2)

\* the largest sum of squares the model's vectors reach
MaxMagnitude == IF MaxCount > MaxSentences THEN MaxCount ELSE MaxSentences

MaxBase == Cardinality(Words) * MaxMagnitude * MaxMagnitude

RECURSIVE SqrtSeq(_)
SqrtSeq(n) == IF n = 0 THEN <<>> ELSE Append(SqrtSeq(n - 1), FSqrt(FromInt(n)))

SqrtTable == SqrtSeq(MaxBase)

\* base ** 0.5 for an int base >= 0: C's pow(base, 0.5), which is the correctly
\* rounded square root for every base below 2921
Pow05(base) == IF base = 0 THEN FZero ELSE SqrtTable[base]

MinusOne == FromInt(-1)

\* a variant that tests the two sums together: and for or
ZeroNormMutant(base1, base2) == base1 = 0 /\ base2 = 0

\* if base1 == 0 or base2 == 0
ZeroNorm(base1, base2) == base1 = 0 \/ base2 = 0

\* value: what is returned; divided: whether the division of the last line
\* was executed; raised: whether it raised ZeroDivisionError
cosine_similarity(vec1, vec2) ==
    LET base1 == SumOfSquares(vec1)
        base2 == SumOfSquares(vec2)
        top   == DotProduct(vec1, vec2)
    IN  IF ZeroNorm(base1, base2)
        THEN [value |-> MinusOne, divided |-> FALSE, raised |-> FALSE]
        ELSE LET divisor == FMul(Pow05(base1), Pow05(base2))
             IN  IF divisor = FZero
                 THEN [value |-> FZero, divided |-> TRUE, raised |-> TRUE]
                 ELSE [value   |-> FDiv(FromInt(top), divisor),
                       divided |-> TRUE, raised |-> FALSE]

\* ------------------------------------------------------------------------
\* build_semantic_descriptors
\* ------------------------------------------------------------------------
\* a variant that drops the first token of the sentence
UniqueWordsMutant(sentence) == {sentence[i] : i \in 2..Len(sentence)}

\* unique_words = set(sentence)
UniqueWords(sentence) == {sentence[i] : i \in 1..Len(sentence)}

\* a variant that resets the descriptor of a word at every sentence
EnsureKeyMutant(descriptors, word) == Put(descriptors, word, EmptyDict)

\* if word not in descriptors: descriptors[word] = {}
EnsureKey(descriptors, word) ==
    IF word \notin DOMAIN descriptors THEN Put(descriptors, word, EmptyDict)
    ELSE descriptors

\* a variant that counts only words that are keys already
CountsMutant(descriptors, word, other_word) ==
    other_word # word /\ other_word \in DOMAIN descriptors

\* if other_word != word
Counts(descriptors, word, other_word) == other_word # word

\* a variant that forgets the count so far
IncrementMutant(vec, other_word) == Put(vec, other_word, 1)

\* descriptors[word][other_word] = descriptors[word].get(other_word, 0) + 1
Increment(vec, other_word) == Put(vec, other_word, Get(vec, other_word, 0) + 1)

\* for other_word in unique_words, over the words still to visit
RECURSIVE InnerLoop(_, _, _)
InnerLoop(descriptors, word, rest) ==
    IF rest = {} THEN descriptors
    ELSE LET other_word == CHOOSE x \in rest : TRUE
             next == IF Counts(descriptors, word, other_word)
                     THEN Put(descriptors, word, Increment(descriptors[word], other_word))
                     ELSE descriptors
         IN  InnerLoop(next, word, rest \ {other_word})

\* for word in unique_words, over the words still to visit
RECURSIVE OuterLoop(_, _, _)
OuterLoop(descriptors, unique_words, rest) ==
    IF rest = {} THEN descriptors
    ELSE LET word == CHOOSE x \in rest : TRUE
         IN  OuterLoop(InnerLoop(EnsureKey(descriptors, word), word, unique_words),
                       unique_words, rest \ {word})

\* one iteration of: for sentence in sentences
ProcessSentence(descriptors, sentence) ==
    OuterLoop(descriptors, UniqueWords(sentence), UniqueWords(sentence))

RECURSIVE BuildFrom(_, _, _)
BuildFrom(descriptors, sentences, i) ==
    IF i > Len(sentences) THEN descriptors
    ELSE BuildFrom(ProcessSentence(descriptors, sentences[i]), sentences, i + 1)

build_semantic_descriptors(sentences) == BuildFrom(EmptyDict, sentences, 1)

\* the tables build_semantic_descriptors returns for lists of at most n sentences
RECURSIVE TablesFrom(_)
TablesFrom(n) ==
    IF n = 0 THEN {EmptyDict}
    ELSE LET prev == TablesFrom(n - 1)
         IN  prev \cup {ProcessSentence(t, s) : t \in prev, s \in SentencePool}

Tables == TablesFrom(MaxSentences)

\* ------------------------------------------------------------------------
\* most_similar_word
\* ------------------------------------------------------------------------
RECURSIVE SumSqDiff(_, _, _)
SumSqDiff(keys, vec1, vec2) ==
    IF keys = {} THEN 0
    ELSE LET k == CHOOSE x \in keys : TRUE
             d == Get(vec1, k, 0) - Get(vec2, k, 0)
         IN  d * d + SumSqDiff(keys \ {k}, vec1, vec2)

\* The similarity functions handed in as similarity_fn: the module's own
\* cosine_similarity, the number of shared keys, and the negated squared
\* Euclidean distance.
SimilarityFns == {"cosine_similarity", "shared_keys", "neg_sq_distance"}

ApplyFn(fn, vec1, vec2) ==
    CASE fn = "cosine_similarity" -> cosine_similarity(vec1, vec2).value
      [] fn = "shared_keys" -> FromInt(Cardinality(DOMAIN vec1 \cap DOMAIN vec2))
      [] fn = "neg_sq_distance" ->
             FromInt(-SumSqDiff(DOMAIN vec1 \cup DOMAIN vec2, vec1, vec2))

\* a variant that looks up the choice only
MissingMutant(word, choice, semantic_descriptors) ==
    choice \notin DOMAIN semantic_descriptors

\* if word not in semantic_descriptors or choice not in semantic_descriptors
Missing(word, choice, semantic_descriptors) ==
    word \notin DOMAIN semantic_descriptors \/ choice \notin DOMAIN semantic_descriptors

\* a variant that compares with >=
BetterMutant(similarity, max_similarity) == FLeq(max_similarity, similarity)

\* if similarity > max_similarity
Better(similarity, max_similarity) == FLess(max_similarity, similarity)

\* for choice in choices, from the i-th choice on.  calls lists the pairs of
\* words similarity_fn was invoked for; raised tells a KeyError.
RECURSIVE MostSimilarLoop(_, _, _, _, _, _)
MostSimilarLoop(word, choices, semantic_descriptors, fn, i, st) ==
    IF i > Len(choices) \/ st.raised THEN st
    ELSE LET choice  == choices[i]
             missing == Missing(word, choice, semantic_descriptors)
             found   == /\ word \in DOMAIN semantic_descriptors
                        /\ choice \in DOMAIN semantic_descriptors
             similarity ==
                 IF missing THEN MinusOne
                 ELSE ApplyFn(fn, semantic_descriptors[word], semantic_descriptors[choice])
             calls == IF missing THEN st.calls ELSE Append(st.calls, <<word, choice>>)
         IN  IF ~missing /\ ~found THEN [st EXCEPT !.raised = TRUE]
             ELSE MostSimilarLoop(word, choices, semantic_descriptors, fn, i + 1,
                      IF Better(similarity, st.max_similarity)
                      THEN [max_similarity |-> similarity, best_choice |-> choice,
                            calls |-> calls, raised |-> FALSE]
                      ELSE [st EXCEPT !.calls = calls])

\* choices is not empty
most_similar_word(word, choices, semantic_descriptors, fn) ==
    MostSimilarLoop(word, choices, semantic_descriptors, fn, 1,
                    [max_similarity |-> MinusOne, best_choice |-> choices[1],
                     calls |-> <<>>, raised |-> FALSE])

\* ------------------------------------------------------------------------
\* run_similarity_test
\* ------------------------------------------------------------------------
\* words = line.strip().split(): a line is given by its fields
LinePool == UNION {[1..n -> Words] : n \in 0..MaxFields}

\* a variant that asks for more than 3 fields
ValidMutant(words) == Len(words) > 3

\* if len(words) >= 3
Valid(words) == Len(words) >= 3

Hundred == FromInt(100)

\* the return value after the loop; divided tells whether a division ran
Percentage(correct_count, total_count) ==
    IF total_count = 0 THEN [value |-> FZero, divided |-> FALSE]
    ELSE [value   |-> FMul(FDiv(FromInt(correct_count), FromInt(total_count)), Hundred),
          divided |-> TRUE]

\* ------------------------------------------------------------------------
\* State
\* ------------------------------------------------------------------------
VARIABLES
    pc,              \* where the running function is
    sentences,       \* build_semantic_descriptors: the sentences processed so far
    descriptors,     \* build_semantic_descriptors: its local descriptors
    vec1, vec2,      \* cosine_similarity: its arguments
    cos,             \* cosine_similarity: what the call did
    word, choices,   \* most_similar_word: its arguments
    semantic_descriptors, similarity_fn,
                     \* most_similar_word and run_similarity_test: their arguments
    chosen,          \* most_similar_word: the state of its loop at return
    words,           \* run_similarity_test: the fields of the line in hand
    lines_read,      \* run_similarity_test: the lines taken from the file
    total_count, correct_count,
    result           \* run_similarity_test: what is returned

vars == <<pc, sentences, descriptors, vec1, vec2, cos, word, choices,
          semantic_descriptors, similarity_fn, chosen, words, lines_read,
          total_count, correct_count, result>>

buildVars == <<sentences, descriptors>>
cosVars   == <<vec1, vec2, cos>>
selVars   == <<word, choices, chosen>>
argVars   == <<semantic_descriptors, similarity_fn>>
testVars  == <<words, lines_read, total_count, correct_count, result>>

None == [value |-> FZero, divided |-> FALSE, raised |-> FALSE]

NotChosen == [max_similarity |-> MinusOne, best_choice |-> "", calls |-> <<>>,
              raised |-> FALSE]

BuildIdle == sentences = <<>> /\ descriptors = EmptyDict
CosIdle   == vec1 = EmptyDict /\ vec2 = EmptyDict /\ cos = None
SelIdle   == word = "" /\ choices = <<>> /\ chosen = NotChosen
ArgIdle   == semantic_descriptors = EmptyDict /\ similarity_fn = ""
TestIdle  == /\ words = <<>> /\ lines_read = 0 /\ total_count = 0
             /\ correct_count = 0 /\ result = None

\* ------------------------------------------------------------------------
\* build_semantic_descriptors(sentences): one step per sentence of the list
\* ------------------------------------------------------------------------
InitBuild ==
    /\ pc = "build"
    /\ BuildIdle /\ CosIdle /\ SelIdle /\ ArgIdle /\ TestIdle

BuildSentence(sentence) ==
    /\ pc = "build"
    /\ Len(sentences) < MaxSentences
    /\ sentences' = Append(sentences, sentence)
    /\ descriptors' = ProcessSentence(descriptors, sentence)
    /\ UNCHANGED <<pc, cosVars, selVars, argVars, testVars>>

NextBuild == \E sentence \in SentencePool : BuildSentence(sentence)

SpecBuild == InitBuild /\ [][NextBuild]_vars

\* ------------------------------------------------------------------------
\* cosine_similarity(vec1, vec2)
\* ------------------------------------------------------------------------
\* sparse vectors: magnitudes are counts; a key may be present with magnitude 0
Vectors == UNION {[keys -> 0..MaxCount] : keys \in SUBSET Words}

InitCos ==
    /\ pc = "call"
    /\ vec1 \in Vectors /\ vec2 \in Vectors /\ cos = None
    /\ BuildIdle /\ SelIdle /\ ArgIdle /\ TestIdle

CosineSimilarity ==
    /\ pc = "call"
    /\ cos' = cosine_similarity(vec1, vec2)
    /\ pc' = "done"
    /\ UNCHANGED <<vec1, vec2, buildVars, selVars, argVars, testVars>>

NextCos == CosineSimilarity

SpecCos == InitCos /\ [][NextCos]_vars

\* ------------------------------------------------------------------------
\* most_similar_word(word, choices, semantic_descriptors, similarity_fn)
\* ------------------------------------------------------------------------
ChoiceLists == UNION {[1..n -> Words] : n \in 1..MaxChoices}

InitSel ==
    /\ pc = "call"
    /\ word \in Words /\ choices \in ChoiceLists /\ chosen = NotChosen
    /\ semantic_descriptors \in Tables /\ similarity_fn \in SimilarityFns
    /\ BuildIdle /\ CosIdle /\ TestIdle

MostSimilarWord ==
    /\ pc = "call"
    /\ chosen' = most_similar_word(word, choices, semantic_descriptors, similarity_fn)
    /\ pc' = "done"
    /\ UNCHANGED <<word, choices, argVars, buildVars, cosVars, testVars>>

NextSel == MostSimilarWord

SpecSel == InitSel /\ [][NextSel]_vars

\* ------------------------------------------------------------------------
\* run_similarity_test(filename, semantic_descriptors, similarity_fn)
\* ------------------------------------------------------------------------
\* the tables of the evaluation: those of a corpus of one sentence, among them
\* the empty table and tables that lack some of the words
TestTables == TablesFrom(1)

InitTest ==
    /\ pc = "read"
    /\ semantic_descriptors \in TestTables /\ similarity_fn \in SimilarityFns
    /\ TestIdle /\ BuildIdle /\ CosIdle /\ SelIdle

\* for line in file: the next line, split into its fields
ReadLine(line) ==
    /\ pc = "read"
    /\ lines_read < MaxLines
    /\ words' = line
    /\ lines_read' = lines_read + 1
    /\ pc' = "score"
    /\ UNCHANGED <<total_count, correct_count, result, argVars, buildVars,
                   cosVars, selVars>>

\* the body of the loop
ScoreLine ==
    /\ pc = "score"
    /\ IF Valid(words)
       THEN LET correct_answer == words[2]
                guess == most_similar_word(words[1], SubSeq(words, 3, Len(words)),
                             semantic_descriptors, similarity_fn).best_choice
            IN  /\ correct_count' = IF guess = correct_answer
                                    THEN correct_count + 1 ELSE correct_count
                /\ total_count' = total_count + 1
       ELSE UNCHANGED <<total_count, correct_count>>
    /\ words' = <<>>    \* the line is not read again
    /\ pc' = "read"
    /\ UNCHANGED <<lines_read, result, argVars, buildVars, cosVars, selVars>>

\* the end of the file: the lines after the loop
EndOfFile ==
    /\ pc = "read"
    /\ result' = Percentage(correct_count, total_count)
    /\ pc' = "done"
    /\ UNCHANGED <<words, lines_read, total_count, correct_count, argVars,
                   buildVars, cosVars, selVars>>

NextTest ==
    \/ \E line \in LinePool : ReadLine(line)
    \/ ScoreLine
    \/ EndOfFile

SpecTest == InitTest /\ [][NextTest]_vars

\* ------------------------------------------------------------------------
\* Properties of build_semantic_descriptors, under SpecBuild
\* ------------------------------------------------------------------------
Contains(sentence, w) == \E i \in 1..Len(sentence) : sentence[i] = w

\* the number of sentences processed so far that contain both w and v
CoOccurrences(w, v) ==
    Cardinality({i \in 1..Len(sentences) :
                    Contains(sentences[i], w) /\ Contains(sentences[i], v)})

\* C1: for distinct words w and v, table[w][v] is the number of sentences that
\* contain both (a word repeated inside a sentence counts once), and v is no
\* key of table[w] when that number is 0.
C1_CoOccurrenceCounts ==
    \A w \in Words, v \in Words :
        w # v =>
            LET n == CoOccurrences(w, v)
            IN  IF n > 0
                THEN /\ w \in DOMAIN descriptors
                     /\ v \in DOMAIN descriptors[w]
                     /\ descriptors[w][v] = n
                ELSE w \in DOMAIN descriptors => v \notin DOMAIN descriptors[w]

\* two sentences share a pair of words, one of them repeating a word
C1_Witness ==
    \E w \in Words, v \in Words :
        /\ w # v
        /\ CoOccurrences(w, v) = 2
        /\ \E i \in 1..Len(sentences) :
               /\ Contains(sentences[i], v)
               /\ \E j, k \in 1..Len(sentences[i]) :
                      j # k /\ sentences[i][j] = w /\ sentences[i][k] = w
        /\ w \in DOMAIN descriptors
        /\ Get(descriptors[w], v, 0) = 2

\* C2, as claimed: every key of the table maps to a non-empty descriptor (a
\* word that co-occurs with nothing is no key).
C2_NoEmptyDescriptor ==
    \A w \in DOMAIN descriptors : DOMAIN descriptors[w] # {}

\* C2, amended: every word of every sentence is a key of the table, and its
\* descriptor is empty exactly when no sentence holds it beside another word.
C2_EveryWordIsAKey ==
    /\ DOMAIN descriptors =
           {w \in Words : \E i \in 1..Len(sentences) : Contains(sentences[i], w)}
    /\ \A w \in DOMAIN descriptors :
           DOMAIN descriptors[w] = {} <=>
               \A v \in Words \ {w} : CoOccurrences(w, v) = 0

\* a word seen only alone is a key with an empty descriptor, beside two words
\* that co-occur
C2_Witness ==
    /\ Len(sentences) = 2
    /\ \E w \in DOMAIN descriptors :
           /\ DOMAIN descriptors[w] = {}
           /\ \E i \in 1..Len(sentences) :
                  Len(sentences[i]) = 2 /\ UniqueWords(sentences[i]) = {w}
    /\ \E v \in DOMAIN descriptors : DOMAIN descriptors[v] # {}

\* C8: after every completely processed sentence the table is symmetric: v is a
\* key of table[w] exactly when w is a key of table[v], and the counts agree.
C8_Symmetry ==
    \A w \in Words, v \in Words :
        LET wv == w \in DOMAIN descriptors /\ v \in DOMAIN descriptors[w]
            vw == v \in DOMAIN descriptors /\ w \in DOMAIN descriptors[v]
        IN  /\ wv <=> vw
            /\ wv => descriptors[w][v] = descriptors[v][w]

\* a count of 2 in both directions beside a count of 1 in both directions
C8_Witness ==
    \E w \in DOMAIN descriptors, v \in DOMAIN descriptors, u \in DOMAIN descriptors :
        /\ Get(descriptors[w], v, 0) = 2
        /\ Get(descriptors[v], w, 0) = 2
        /\ Get(descriptors[w], u, 0) = 1
        /\ Get(descriptors[u], w, 0) = 1

Reorderings(n) ==
    {p \in [1..n -> 1..n] : \A i, j \in 1..n : p[i] = p[j] => i = j}

\* C10: the table does not depend on the order of the sentences: every
\* permutation of the list gives the same keys and the same counts.
C10_OrderIndependent ==
    \A p \in Reorderings(Len(sentences)) :
        build_semantic_descriptors([i \in 1..Len(sentences) |-> sentences[p[i]]])
            = descriptors

\* two sentences over different words, both adding to the table
C10_Witness ==
    /\ Len(sentences) = 2
    /\ UniqueWords(sentences[1]) # UniqueWords(sentences[2])
    /\ Cardinality(UniqueWords(sentences[1])) >= 2
    /\ Cardinality(UniqueWords(sentences[2])) >= 2
    /\ descriptors = build_semantic_descriptors(<<sentences[2], sentences[1]>>)

\* ------------------------------------------------------------------------
\* Properties of cosine_similarity, under SpecCos
\* ------------------------------------------------------------------------
AllZero(vec) == \A k \in DOMAIN vec : vec[k] = 0

\* C6: -1.0 is returned exactly when the sum of squares of vec1 or of vec2 is 0
\* (the vector is empty or all zero), and then nothing is divided and nothing
\* is raised.
C6_ZeroVectorSentinel ==
    pc = "done" =>
        /\ ~cos.raised
        /\ cos.value = MinusOne <=> (AllZero(vec1) \/ AllZero(vec2))
        /\ (AllZero(vec1) \/ AllZero(vec2)) => ~cos.divided

\* cosine_similarity(vec, {}) for a vec with a positive magnitude
C6_Witness ==
    /\ pc = "done"
    /\ vec2 = EmptyDict
    /\ \E k \in DOMAIN vec1 : vec1[k] > 0
    /\ cos.value = MinusOne
    /\ ~cos.divided

One == FromInt(1)

\* C7: for non-empty vectors of positive counts the result lies in [0.0, 1.0]:
\* the dot product is >= 0, its square is at most the product of the sums of
\* squares, and the result is above the -1.0 sentinel.
C7_SimilarityBound ==
    (/\ pc = "done"
     /\ DOMAIN vec1 # {} /\ DOMAIN vec2 # {}
     /\ \A k \in DOMAIN vec1 : vec1[k] > 0
     /\ \A k \in DOMAIN vec2 : vec2[k] > 0)
    => /\ DotProduct(vec1, vec2) >= 0
       /\ DotProduct(vec1, vec2) * DotProduct(vec1, vec2)
              <= SumOfSquares(vec1) * SumOfSquares(vec2)
       /\ ~cos.raised
       /\ FLess(MinusOne, cos.value)
       /\ FLeq(FZero, cos.value)
       /\ FLeq(cos.value, One)

\* ------------------------------------------------------------------------
\* Properties of most_similar_word, under SpecSel
\* ------------------------------------------------------------------------
\* the similarity of a choice to the word
Similarity(choice) ==
    IF word \in DOMAIN semantic_descriptors /\ choice \in DOMAIN semantic_descriptors
    THEN ApplyFn(similarity_fn, semantic_descriptors[word], semantic_descriptors[choice])
    ELSE MinusOne

\* C3: the returned choice is an element of choices whose similarity is the
\* largest among all choices, whatever the similarity function returns.
C3_LargestSimilarity ==
    pc = "done" =>
        /\ ~chosen.raised
        /\ \E i \in 1..Len(choices) : choices[i] = chosen.best_choice
        /\ \A i \in 1..Len(choices) :
               FLeq(Similarity(choices[i]), Similarity(chosen.best_choice))

FirstIndex(choice) == CHOOSE i \in 1..Len(choices) :
    choices[i] = choice /\ \A j \in 1..(i - 1) : choices[j] # choice

\* C4: ties go to the first occurrence: no choice before the returned one has
\* the returned one's similarity; of two choices with equal similarity the first
\* is returned.
C4_FirstOccurrenceWins ==
    pc = "done" =>
        /\ \E i \in 1..Len(choices) : choices[i] = chosen.best_choice
        /\ \A j \in 1..(FirstIndex(chosen.best_choice) - 1) :
               Similarity(choices[j]) # Similarity(chosen.best_choice)
        /\ (Len(choices) = 2 /\ Similarity(choices[1]) = Similarity(choices[2]))
               => chosen.best_choice = choices[1]

\* two different choices, both known, tie above -1 and the first is returned
C4_Witness ==
    /\ pc = "done"
    /\ Len(choices) = 2
    /\ choices[1] # choices[2]
    /\ Len(chosen.calls) = 2
    /\ Similarity(choices[1]) = Similarity(choices[2])
    /\ FLess(MinusOne, Similarity(choices[1]))
    /\ chosen.best_choice = choices[1]

\* C5: with the word missing from the table the first choice is returned,
\* nothing is raised and the similarity function is never invoked; it is only
\* ever invoked for a word and a choice that are both keys of the table.
C5_UnknownWord ==
    pc = "done" =>
        /\ ~chosen.raised
        /\ word \notin DOMAIN semantic_descriptors =>
               chosen.best_choice = choices[1] /\ chosen.calls = <<>>
        /\ \A i \in 1..Len(chosen.calls) :
               /\ chosen.calls[i][1] \in DOMAIN semantic_descriptors
               /\ chosen.calls[i][2] \in DOMAIN semantic_descriptors

\* the word is unknown to a table that knows the second choice
C5_Witness ==
    /\ pc = "done"
    /\ word \notin DOMAIN semantic_descriptors
    /\ Len(choices) = 2
    /\ choices[2] \in DOMAIN semantic_descriptors
    /\ DOMAIN semantic_descriptors[choices[2]] # {}
    /\ chosen.best_choice = choices[1]
    /\ chosen.calls = <<>>

\* ------------------------------------------------------------------------
\* Properties of run_similarity_test, under SpecTest
\* ------------------------------------------------------------------------
BAbsDiff(a, b) == IF BCmp(a, b) >= 0 THEN BSub(a, b) ELSE BSub(b, a)

\* the float x is num / den to within two units in its last place: the
\* rounding of one division and one multiplication
Near(x, num, den) ==
    IF Len(x.man) = 0 THEN num = 0
    ELSE /\ x.sgn = 1
         /\ x.exp <= 0
         /\ BCmp(BAbsDiff(BMul(x.man, BFromNat(den)), BShl(BFromNat(num), -x.exp)),
                 BFromNat(2 * den)) <= 0

\* what the loop body does to the counters for the line in hand
ScoredAsClaimed ==
    IF Len(words) < 3
    THEN total_count' = total_count /\ correct_count' = correct_count
    ELSE LET guess == most_similar_word(words[1], SubSeq(words, 3, Len(words)),
                          semantic_descriptors, similarity_fn).best_choice
         IN  /\ total_count' = total_count + 1
             /\ correct_count' =
                    correct_count + (IF guess = words[2] THEN 1 ELSE 0)

====
